---------------------------- MODULE Spec2Model ----------------------------
(***************************************************************************)
(* A model of the srpc client's resilience subsystem: the circuit breaker, *)
(* the retry executor, the connection manager with its health checker,     *)
(* the scheduler, the metrics collector, the semaphore, and the facade's   *)
(* NewGRPCClient/Run/Shutdown/cleanup.                                     *)
(*                                                                         *)
(* Time is a discrete clock `now` in seconds.  Goroutines are processes    *)
(* with a program counter; one action is one critical section or one       *)
(* blocking call of the source.                                            *)
(***************************************************************************)
EXTENDS Integers, Sequences, FiniteSets, TLC

(***************************************************************************)
(* Bounds of the model.                                                    *)
(***************************************************************************)
\* Concurrent callers of the circuit breaker.
NumCallers == 4
\* The clock stops advancing once it has reached MaxTime seconds.
MaxTime == 60
\* Seconds by which one Tick advances the clock.
TickStep == 10
\* Cap of the breaker's successCount, which the code never bounds in Closed.
MaxSuccessCount == 4
\* Config.MaxRetries (MAX_RETRIES, default 3); 4 makes the 10s cap apply.
MaxRetries == 4
\* Invocations of Shutdown(): the signal handler's and another caller's.
NumShutdowns == 2
\* Connections the dialer can create before every further dial fails.
MaxConns == 2
\* Close() calls on one connection that are counted; later ones are not.
MaxCloses == 2
\* The scheduler starts no new cycle once it may exceed this many requests.
MaxRequests == 6
\* Longest duration of one request that RecordRequest() is given, in ms.
MaxDuration == 2
\* Goroutines that share one Semaphore.
NumWorkers == 3
\* Capacity of the Semaphore (MAX_CONCURRENT_REQUESTS, default 5).
SemCapacity == 2
\* rand.Float64() is drawn from {0/NumDraws, ..., (NumDraws-1)/NumDraws}.
NumDraws == 8

(***************************************************************************)
(* Program constants.                                                      *)
(***************************************************************************)
\* NewCircuitBreaker(5, 3, 30*time.Second) in NewGRPCClient.
FailureThreshold == 5
SuccessThreshold == 3
OpenDuration == 30
\* halfOpenMaxCalls: 3 in NewCircuitBreaker.
HalfOpenMaxCalls == 3

\* Arguments of NewCircuitBreaker other than the client's own (5, 3, 30s).
MaxThreshold == 4
FailureThresholds == {1, FailureThreshold}
SuccessThresholds == 1..MaxThreshold
OpenDurations == {OpenDuration}

\* A reconnect() that allows one attempt more.
MaxReconnectRetries_OneMore == 5 + 1

\* maxReconnectRetries in reconnect().
MaxReconnectRetries == 5
\* The caps of the retry backoff and of the reconnect backoff, in seconds.
MaxRetryBackoff == 10
MaxReconnectBackoff == 30

\* loadConfig(): REQUEST_INTERVAL_SEC defaults to 30 (here in milliseconds),
\* JITTER_PERCENT to 10.
DefaultRequestInterval == 30000
DefaultJitterPercent == 10
\* time.Millisecond, in the model's unit of duration.
Millisecond == 1
\* Values of RequestInterval that loadConfig() can produce: whole seconds.
RequestIntervals == {0, 1000, 2000, 10000, 30000}
\* Values of JitterPercent: loadConfig() clamps it to 0..100.
JitterPercents == {0, 1, 10, 50, 100}

StateDisconnected == "Disconnected"
StateConnecting == "Connecting"
StateConnected == "Connected"
StateDegraded == "Degraded"

CBStateClosed == "CLOSED"
CBStateOpen == "OPEN"
CBStateHalfOpen == "HALF_OPEN"

Callers == 1..NumCallers
\* Goroutines that share one Semaphore.
Workers == 1..NumWorkers
ShutdownCallers == 1..NumShutdowns
\* The goroutines that can run reconnect(): mainLoop and healthCheckLoop.
Loops == {"sched", "health"}
\* What one call of the remote SayHello can return: a reply, an error worth
\* retrying, or an error that the comment of isFatalError calls fatal
\* (invalid argument, permission denied).
Outcomes == {"ok", "transient", "fatal"}

\* The zero time.Time of an unset lastStateChange lies further in the past
\* than any duration the model measures.
ZeroTime == 0 - (OpenDuration + MaxTime)

VARIABLES
    now,            \* the wall clock, in seconds
    cb,             \* the CircuitBreaker struct
    cpc,            \* position of each concurrent breaker caller
    lastRet,        \* return value of the AllowRequest() that returned last
    closedStreak,   \* history: failures recorded in Closed since the last success
    stayAdmits,     \* history: AllowRequest() = true during the current HalfOpen stay
    staySuccesses,  \* history: RecordSuccess() calls in the latest HalfOpen stay
    \* GRPCClient
    isShutting,     \* c.isShutting
    ctxDone,        \* c.cancel() has been called
    stopClosed,     \* number of close(c.stopChan) executed
    wg,             \* c.wg's counter
    connectionState,
    conn,           \* c.conn: a connection id, 0 for nil
    greeter,        \* the connection c.greeter is a stub of, 0 for nil
    lastError,      \* c.lastError
    reconnectCount, \* c.reconnectCount
    conns,          \* per connection id: how many times Close() was called on it
    metrics,        \* the Metrics struct
    \* goroutines
    mpc,            \* main: NewGRPCClient, Run, cleanup
    shpc,           \* each Shutdown() invocation
    pc,             \* mainLoop ("sched") and healthCheckLoop ("health")
    rcCount,        \* retryCount of the reconnect() each loop runs
    attempt,        \* attempt of executeWithRetry
    lastErr,        \* lastErr of executeWithRetry
    rpcConn,        \* connection the scheduler's SayHello in flight was issued on
    \* history of the current executeWithRetry sequence
    sleeps,         \* the backoff durations slept, in seconds
    started,        \* attempts of the operation started
    retryEnd,       \* why the sequence ended, "none" before it has
    \* history of the reconnect() sequence each loop ran last
    dials,          \* calls of connect() in the sequence
    exhaustions,    \* times the sequence recorded that its attempts ran out
    \* history of the request operation
    attemptsDone,   \* attempts of the operation that have returned
    cbReports,      \* RecordSuccess()/RecordFailure() calls made by attempts
    \* Semaphore
    sem,            \* number of elements in the channel s.sem
    spc,            \* position of each goroutine using the semaphore
    held,           \* slots each goroutine has acquired and not released
    semRet,         \* <<method, result>> of each goroutine's last acquisition
    \* Metrics.GetMetrics
    snapshot,       \* <<the map the last GetMetrics() returned>>, <<>> before
    \* Config, and mainLoop's local
    requestInterval,\* c.config.RequestInterval, in milliseconds
    jitterPercent,  \* c.config.JitterPercent
    waitInterval    \* waitInterval of mainLoop, in milliseconds, -1 before

cbVars == <<cpc, lastRet, closedStreak, stayAdmits, staySuccesses>>
clientVars == <<isShutting, ctxDone, stopClosed, wg, connectionState, conn,
                greeter, lastError, reconnectCount, conns>>
retryVars == <<attempt, lastErr, rpcConn, sleeps, started, retryEnd>>
histVars == <<dials, exhaustions, attemptsDone, cbReports>>
semVars == <<sem, spc, held, semRet>>
jitterVars == <<requestInterval, jitterPercent, waitInterval>>
vars == <<now, cb, cbVars, clientVars, metrics, mpc, shpc, pc, rcCount, retryVars,
          histVars, semVars, snapshot, jitterVars>>

(***************************************************************************)
(* The circuit breaker (part_000, lines 329-467).                          *)
(***************************************************************************)
NewCircuitBreaker(failureThreshold, successThreshold, openDuration) ==
    [ state             |-> CBStateClosed,
      failureCount      |-> 0,
      successCount      |-> 0,
      lastStateChange   |-> ZeroTime,
      openDuration      |-> openDuration,
      failureThreshold  |-> failureThreshold,
      successThreshold  |-> successThreshold,
      halfOpenMaxCalls  |-> HalfOpenMaxCalls,
      halfOpenCallCount |-> 0 ]

\* time.Since(t) read at clock value t0.
Since(t0, t) == t0 - t

\* AllowRequestRead with the elapsed-time comparison off by one (> for >=).
AllowRequestRead_Strict(b, t0) ==
    CASE b.state = CBStateClosed -> "allow"
      [] b.state = CBStateOpen ->
            IF Since(t0, b.lastStateChange) > b.openDuration
            THEN "upgrade" ELSE "deny"
      [] b.state = CBStateHalfOpen ->
            IF b.halfOpenCallCount < b.halfOpenMaxCalls THEN "allow" ELSE "deny"
      [] OTHER -> "deny"

\* The read-locked part of AllowRequest(): "allow" and "deny" are its return
\* values true and false; "upgrade" is the Open branch whose elapsed-time
\* check passed, before the read lock is released for the write lock.
AllowRequestRead(b, t0) ==
    CASE b.state = CBStateClosed -> "allow"
      [] b.state = CBStateOpen ->
            IF Since(t0, b.lastStateChange) >= b.openDuration
            THEN "upgrade" ELSE "deny"
      [] b.state = CBStateHalfOpen ->
            IF b.halfOpenCallCount < b.halfOpenMaxCalls THEN "allow" ELSE "deny"
      [] OTHER -> "deny"

\* The write-locked part of AllowRequest(): it writes without reading state.
AllowRequestWrite(b, t0) ==
    [b EXCEPT !.state = CBStateHalfOpen,
              !.halfOpenCallCount = 0,
              !.lastStateChange = t0]

\* RecordSuccess that forgets to reset failureCount in Closed.
RecordSuccessCB_NoReset(b, t0) ==
    CASE b.state = CBStateClosed ->
            [b EXCEPT !.successCount = b.successCount + 1]
      [] b.state = CBStateHalfOpen ->
            IF b.successCount + 1 >= b.successThreshold
            THEN [b EXCEPT !.halfOpenCallCount = b.halfOpenCallCount + 1,
                           !.state = CBStateClosed,
                           !.successCount = 0,
                           !.failureCount = 0,
                           !.lastStateChange = t0]
            ELSE [b EXCEPT !.halfOpenCallCount = b.halfOpenCallCount + 1,
                           !.successCount = b.successCount + 1]
      [] OTHER -> b

RecordSuccessCB(b, t0) ==
    CASE b.state = CBStateClosed ->
            [b EXCEPT !.successCount = b.successCount + 1,
                      !.failureCount = 0]
      [] b.state = CBStateHalfOpen ->
            IF b.successCount + 1 >= b.successThreshold
            THEN [b EXCEPT !.halfOpenCallCount = b.halfOpenCallCount + 1,
                           !.state = CBStateClosed,
                           !.successCount = 0,
                           !.failureCount = 0,
                           !.lastStateChange = t0]
            ELSE [b EXCEPT !.halfOpenCallCount = b.halfOpenCallCount + 1,
                           !.successCount = b.successCount + 1]
      [] OTHER -> b

\* RecordFailure that opens from HalfOpen only at failureThreshold, as in Closed.
RecordFailureCB_Averaging(b, t0) ==
    CASE b.state = CBStateClosed ->
            IF b.failureCount + 1 >= b.failureThreshold
            THEN [b EXCEPT !.failureCount = b.failureCount + 1,
                           !.successCount = 0,
                           !.state = CBStateOpen,
                           !.lastStateChange = t0]
            ELSE [b EXCEPT !.failureCount = b.failureCount + 1,
                           !.successCount = 0]
      [] b.state = CBStateHalfOpen ->
            IF b.halfOpenCallCount + 1 >= b.halfOpenMaxCalls
            THEN [b EXCEPT !.halfOpenCallCount = b.halfOpenCallCount + 1,
                           !.failureCount = b.failureCount + 1,
                           !.successCount = 0,
                           !.state = CBStateOpen,
                           !.lastStateChange = t0]
            ELSE [b EXCEPT !.halfOpenCallCount = b.halfOpenCallCount + 1,
                           !.failureCount = b.failureCount + 1,
                           !.successCount = 0]
      [] OTHER -> b

RecordFailureCB(b, t0) ==
    CASE b.state = CBStateClosed ->
            IF b.failureCount + 1 >= b.failureThreshold
            THEN [b EXCEPT !.failureCount = b.failureCount + 1,
                           !.successCount = 0,
                           !.state = CBStateOpen,
                           !.lastStateChange = t0]
            ELSE [b EXCEPT !.failureCount = b.failureCount + 1,
                           !.successCount = 0]
      [] b.state = CBStateHalfOpen ->
            [b EXCEPT !.halfOpenCallCount = b.halfOpenCallCount + 1,
                      !.failureCount = b.failureCount + 1,
                      !.successCount = 0,
                      !.state = CBStateOpen,
                      !.lastStateChange = t0]
      [] OTHER -> b

GetState(b) == b.state

(***************************************************************************)
(* History bookkeeping.                                                    *)
(***************************************************************************)
\* stayAdmits after a step from breaker b to b2 in which `admitted` tells
\* whether an AllowRequest() returned true.
NextStayAdmits(b, b2, admitted) ==
    IF b2.state # CBStateHalfOpen THEN 0
    ELSE (IF b.state = CBStateHalfOpen THEN stayAdmits ELSE 0)
         + (IF admitted THEN 1 ELSE 0)

\* staySuccesses after a RecordSuccess() (success) or RecordFailure() call
\* made when the breaker was b.
NextStaySuccesses(b, success) ==
    IF b.state = CBStateHalfOpen
    THEN (IF success THEN staySuccesses + 1 ELSE staySuccesses)
    ELSE 0

\* closedStreak after a Record call that took the breaker from b to b2.
NextClosedStreak(b, success) ==
    IF b.state = CBStateClosed /\ ~success THEN closedStreak + 1 ELSE 0

(***************************************************************************)
(* Concurrent callers of one breaker.  A caller calls AllowRequest() and,  *)
(* when admitted, reports the outcome of its call later.                   *)
(***************************************************************************)
AllowRequest(c) ==
    /\ cpc[c] = "idle"
    /\ LET r == AllowRequestRead(cb, now) IN
         /\ cpc' = [cpc EXCEPT ![c] = CASE r = "allow" -> "admitted"
                                        [] r = "upgrade" -> "upgrade"
                                        [] OTHER -> "idle"]
         /\ lastRet' = CASE r = "allow" -> "true"
                         [] r = "deny" -> "false"
                         [] OTHER -> lastRet
         /\ stayAdmits' = NextStayAdmits(cb, cb, r = "allow")
    /\ UNCHANGED <<now, cb, closedStreak, staySuccesses>>
    /\ UNCHANGED <<clientVars, metrics, mpc, shpc, pc, rcCount, retryVars>>
    /\ UNCHANGED <<histVars, semVars, snapshot, jitterVars>>

AllowRequestUpgrade(c) ==
    /\ cpc[c] = "upgrade"
    /\ cb' = AllowRequestWrite(cb, now)
    /\ cpc' = [cpc EXCEPT ![c] = "admitted"]
    /\ lastRet' = "true"
    /\ stayAdmits' = NextStayAdmits(cb, cb', TRUE)
    /\ closedStreak' = 0
    /\ staySuccesses' = IF cb.state = CBStateHalfOpen THEN staySuccesses ELSE 0
    /\ UNCHANGED now
    /\ UNCHANGED <<clientVars, metrics, mpc, shpc, pc, rcCount, retryVars>>
    /\ UNCHANGED <<histVars, semVars, snapshot, jitterVars>>

RecordSuccess(c) ==
    /\ cpc[c] = "admitted"
    /\ cb.state = CBStateClosed => cb.successCount < MaxSuccessCount
    /\ cb' = RecordSuccessCB(cb, now)
    /\ cpc' = [cpc EXCEPT ![c] = "idle"]
    /\ stayAdmits' = NextStayAdmits(cb, cb', FALSE)
    /\ closedStreak' = NextClosedStreak(cb, TRUE)
    /\ staySuccesses' = NextStaySuccesses(cb, TRUE)
    /\ UNCHANGED <<now, lastRet>>
    /\ UNCHANGED <<clientVars, metrics, mpc, shpc, pc, rcCount, retryVars>>
    /\ UNCHANGED <<histVars, semVars, snapshot, jitterVars>>

RecordFailure(c) ==
    /\ cpc[c] = "admitted"
    /\ cb' = RecordFailureCB(cb, now)
    /\ cpc' = [cpc EXCEPT ![c] = "idle"]
    /\ stayAdmits' = NextStayAdmits(cb, cb', FALSE)
    /\ closedStreak' = NextClosedStreak(cb, FALSE)
    /\ staySuccesses' = NextStaySuccesses(cb, FALSE)
    /\ UNCHANGED <<now, lastRet>>
    /\ UNCHANGED <<clientVars, metrics, mpc, shpc, pc, rcCount, retryVars>>
    /\ UNCHANGED <<histVars, semVars, snapshot, jitterVars>>

Tick ==
    /\ now + TickStep <= MaxTime
    /\ now' = now + TickStep
    /\ UNCHANGED <<cb, cbVars, clientVars, metrics, mpc, shpc, pc, rcCount, retryVars>>
    /\ UNCHANGED <<histVars, semVars, snapshot, jitterVars>>

(***************************************************************************)
(* The metrics collector (part_000, lines 1-76).                           *)
(***************************************************************************)
NewMetrics(t0) ==
    [ totalRequests        |-> 0,
      successfulRequests   |-> 0,
      failedRequests       |-> 0,
      totalRequestDuration |-> 0,
      reconnectCount       |-> 0,
      circuitBreakerState  |-> CBStateClosed,
      lastRequestTimestamp |-> t0 ]

\* A collector that ignores the requests that failed.
RecordRequest_SuccessOnly(m, success, duration, t0) ==
    IF success
    THEN [m EXCEPT !.totalRequests = m.totalRequests + 1,
                   !.successfulRequests = m.successfulRequests + 1,
                   !.totalRequestDuration = m.totalRequestDuration + duration,
                   !.lastRequestTimestamp = t0]
    ELSE m

RecordRequest(m, success, duration, t0) ==
    [m EXCEPT !.totalRequests = m.totalRequests + 1,
              !.successfulRequests =
                  IF success THEN m.successfulRequests + 1 ELSE m.successfulRequests,
              !.failedRequests =
                  IF success THEN m.failedRequests ELSE m.failedRequests + 1,
              !.totalRequestDuration = m.totalRequestDuration + duration,
              !.lastRequestTimestamp = t0]

RecordReconnect(m) == [m EXCEPT !.reconnectCount = m.reconnectCount + 1]

UpdateCircuitBreakerState(m, state) == [m EXCEPT !.circuitBreakerState = state]

\* CircuitBreakerState.String().
CBStateString(state) ==
    CASE state = CBStateClosed -> "CLOSED"
      [] state = CBStateOpen -> "OPEN"
      [] state = CBStateHalfOpen -> "HALF_OPEN"
      [] OTHER -> "UNKNOWN"

\* float64(a) / float64(b) * 100 for counters a, b >= 0.  A finite result is
\* kept in thousandths; 0/0 is NaN and a/0 is +Inf, and both stay so when
\* multiplied by 100.
Float64Percent(a, b) ==
    IF b # 0 THEN [class |-> "finite", milli |-> (a * 100000) \div b]
    ELSE IF a = 0 THEN [class |-> "NaN", milli |-> 0]
    ELSE [class |-> "+Inf", milli |-> 0]

\* GetMetrics(): the snapshot map.
GetMetrics(m) ==
    [ total_requests              |-> m.totalRequests,
      successful_requests         |-> m.successfulRequests,
      failed_requests             |-> m.failedRequests,
      success_rate                |->
          Float64Percent(m.successfulRequests, m.totalRequests),
      average_request_duration_ms |->
          IF m.totalRequests > 0
          THEN m.totalRequestDuration \div m.totalRequests
          ELSE 0,
      reconnect_count             |-> m.reconnectCount,
      circuit_breaker_state       |-> CBStateString(m.circuitBreakerState),
      last_request_timestamp      |-> <<"RFC3339", m.lastRequestTimestamp>> ]

(***************************************************************************)
(* Callers of the collector's methods.                                     *)
(***************************************************************************)
MetricsRecordRequest ==
    /\ metrics.totalRequests < MaxRequests
    /\ \E success \in BOOLEAN, duration \in 0..MaxDuration :
         metrics' = RecordRequest(metrics, success, duration, now)
    /\ UNCHANGED <<now, cb, cbVars, clientVars, mpc, shpc, pc, rcCount,
                   retryVars, histVars, semVars, snapshot, jitterVars>>

MetricsRecordReconnect ==
    /\ metrics.reconnectCount < MaxConns
    /\ metrics' = RecordReconnect(metrics)
    /\ UNCHANGED <<now, cb, cbVars, clientVars, mpc, shpc, pc, rcCount,
                   retryVars, histVars, semVars, snapshot, jitterVars>>

MetricsUpdateCircuitBreakerState ==
    /\ \E state \in {CBStateClosed, CBStateOpen, CBStateHalfOpen} :
         metrics' = UpdateCircuitBreakerState(metrics, state)
    /\ UNCHANGED <<now, cb, cbVars, clientVars, mpc, shpc, pc, rcCount,
                   retryVars, histVars, semVars, snapshot, jitterVars>>

MetricsGetMetrics ==
    /\ snapshot' = <<GetMetrics(metrics)>>
    /\ UNCHANGED <<now, cb, cbVars, clientVars, metrics, mpc, shpc, pc,
                   rcCount, retryVars, histVars, semVars, jitterVars>>

(***************************************************************************)
(* The semaphore (part_001): a buffered channel of the given capacity,     *)
(* represented by the number of elements it holds.                         *)
(***************************************************************************)
NewSemaphore(maxConcurrent) == 0

\* A send that succeeds whatever the channel holds.
SemSend_Unbounded(s, capacity) == [sem |-> s + 1, ok |-> TRUE]

\* The non-blocking send `s.sem <- struct{}{}` of a select: the channel
\* after it, and whether it was done.
SemSend(s, capacity) ==
    IF s < capacity THEN [sem |-> s + 1, ok |-> TRUE]
                    ELSE [sem |-> s, ok |-> FALSE]

\* Acquire(): select with a default case.
Acquire(w) ==
    /\ spc[w] = "idle"
    /\ LET r == SemSend(sem, SemCapacity) IN
         /\ sem' = r.sem
         /\ held' = [held EXCEPT ![w] = IF r.ok THEN held[w] + 1 ELSE held[w]]
         /\ semRet' = [semRet EXCEPT ![w] = <<"Acquire", r.ok>>]
    /\ UNCHANGED spc
    /\ UNCHANGED <<now, cb, cbVars, clientVars, metrics, mpc, shpc, pc,
                   rcCount, retryVars, histVars, snapshot, jitterVars>>

\* Release(), called by a goroutine that holds a slot: the receive
\* `<-s.sem` takes one element.
Release(w) ==
    /\ spc[w] = "idle"
    /\ held[w] > 0
    /\ sem > 0
    /\ sem' = sem - 1
    /\ held' = [held EXCEPT ![w] = held[w] - 1]
    /\ UNCHANGED <<spc, semRet>>
    /\ UNCHANGED <<now, cb, cbVars, clientVars, metrics, mpc, shpc, pc,
                   rcCount, retryVars, histVars, snapshot, jitterVars>>

\* TryAcquire(timeout): the select is entered; the send is done at once
\* when there is room, else the goroutine blocks.
TryAcquire(w) ==
    /\ spc[w] = "idle"
    /\ LET r == SemSend(sem, SemCapacity) IN
         /\ sem' = r.sem
         /\ held' = [held EXCEPT ![w] = IF r.ok THEN held[w] + 1 ELSE held[w]]
         /\ semRet' = [semRet EXCEPT ![w] =
                          IF r.ok THEN <<"TryAcquire", TRUE>> ELSE semRet[w]]
         /\ spc' = [spc EXCEPT ![w] = IF r.ok THEN "idle" ELSE "trying"]
    /\ UNCHANGED <<now, cb, cbVars, clientVars, metrics, mpc, shpc, pc,
                   rcCount, retryVars, histVars, snapshot, jitterVars>>

\* TryAcquire(timeout): a slot was released and the blocked send is done.
TryAcquireSlot(w) ==
    /\ spc[w] = "trying"
    /\ SemSend(sem, SemCapacity).ok
    /\ sem' = SemSend(sem, SemCapacity).sem
    /\ held' = [held EXCEPT ![w] = held[w] + 1]
    /\ semRet' = [semRet EXCEPT ![w] = <<"TryAcquire", TRUE>>]
    /\ spc' = [spc EXCEPT ![w] = "idle"]
    /\ UNCHANGED <<now, cb, cbVars, clientVars, metrics, mpc, shpc, pc,
                   rcCount, retryVars, histVars, snapshot, jitterVars>>

\* TryAcquire(timeout): time.After(timeout) fires.
TryAcquireTimeout(w) ==
    /\ spc[w] = "trying"
    /\ semRet' = [semRet EXCEPT ![w] = <<"TryAcquire", FALSE>>]
    /\ spc' = [spc EXCEPT ![w] = "idle"]
    /\ UNCHANGED <<sem, held>>
    /\ UNCHANGED <<now, cb, cbVars, clientVars, metrics, mpc, shpc, pc,
                   rcCount, retryVars, histVars, snapshot, jitterVars>>

(***************************************************************************)
(* The facade: NewGRPCClient, Run, Shutdown, cleanup (client.go).          *)
(***************************************************************************)
IsShutting == isShutting

\* Close() on connection id k; Close() on a nil connection is never called.
CloseConn(cs, k) ==
    [cs EXCEPT ![k] = IF cs[k] < MaxCloses THEN cs[k] + 1 ELSE cs[k]]

\* A constructor that starts the health checker whatever connect() returned.
NewGRPCClient_StartsAnyway ==
    /\ mpc = "new"
    /\ \E ok \in BOOLEAN :
         IF ok
         THEN /\ conns' = Append(conns, 0)
              /\ conn' = Len(conns) + 1
              /\ greeter' = Len(conns) + 1
              /\ connectionState' = StateConnected
              /\ lastError' = "nil"
              /\ reconnectCount' = reconnectCount + 1
              /\ mpc' = "constructed"
         ELSE /\ connectionState' = StateDisconnected
              /\ lastError' = "dial"
              /\ mpc' = "failed"
              /\ UNCHANGED <<conns, conn, greeter, reconnectCount>>
    /\ wg' = wg + 1
    /\ pc' = [pc EXCEPT !["health"] = "tick"]
    /\ UNCHANGED <<now, cb, cbVars, isShutting, ctxDone, stopClosed, metrics,
                   shpc, rcCount, retryVars>>
    /\ UNCHANGED <<histVars, semVars, snapshot, jitterVars>>

\* NewGRPCClient: the struct literal, the first connect() and, when it
\* succeeded, startHealthChecker(); when it failed, cancel() and no client.
NewGRPCClient ==
    /\ mpc = "new"
    /\ \E ok \in BOOLEAN :
         IF ok
         THEN /\ conns' = Append(conns, 0)
              /\ conn' = Len(conns) + 1
              /\ greeter' = Len(conns) + 1
              /\ connectionState' = StateConnected
              /\ lastError' = "nil"
              /\ reconnectCount' = reconnectCount + 1
              /\ wg' = wg + 1
              /\ pc' = [pc EXCEPT !["health"] = "tick"]
              /\ mpc' = "constructed"
              /\ UNCHANGED ctxDone
         ELSE /\ connectionState' = StateDisconnected
              /\ lastError' = "dial"
              /\ ctxDone' = TRUE
              /\ mpc' = "failed"
              /\ UNCHANGED <<conns, conn, greeter, reconnectCount, wg, pc>>
    /\ UNCHANGED <<now, cb, cbVars, isShutting, stopClosed, metrics, shpc,
                   rcCount, retryVars>>
    /\ UNCHANGED <<histVars, semVars, snapshot, jitterVars>>

\* Run up to its wg.Wait(): the signal handler is installed and mainLoop
\* is started.
Run ==
    /\ mpc = "constructed"
    /\ wg' = wg + 1
    /\ pc' = [pc EXCEPT !["sched"] = "wait"]
    /\ mpc' = "waiting"
    /\ UNCHANGED <<now, cb, cbVars, isShutting, ctxDone, stopClosed,
                   connectionState, conn, greeter, lastError, reconnectCount,
                   conns, metrics, shpc, rcCount, retryVars>>
    /\ UNCHANGED <<histVars, semVars, snapshot, jitterVars>>

\* cleanup() without the wg.Wait() before it.
Cleanup_NoWait ==
    /\ mpc = "waiting"
    /\ conns' = IF conn # 0 THEN CloseConn(conns, conn) ELSE conns
    /\ mpc' = "done"
    /\ UNCHANGED <<now, cb, cbVars, isShutting, ctxDone, stopClosed, wg,
                   connectionState, conn, greeter, lastError, reconnectCount,
                   metrics, shpc, pc, rcCount, retryVars>>
    /\ UNCHANGED <<histVars, semVars, snapshot, jitterVars>>

\* Run after its wg.Wait() returned: cleanup().
Cleanup ==
    /\ mpc = "waiting"
    /\ wg = 0
    /\ conns' = IF conn # 0 THEN CloseConn(conns, conn) ELSE conns
    /\ mpc' = "done"
    /\ UNCHANGED <<now, cb, cbVars, isShutting, ctxDone, stopClosed, wg,
                   connectionState, conn, greeter, lastError, reconnectCount,
                   metrics, shpc, pc, rcCount, retryVars>>
    /\ UNCHANGED <<histVars, semVars, snapshot, jitterVars>>

\* Shutdown() without the test of the flag.
ShutdownEnter_NoCheck(i) ==
    /\ shpc[i] = "idle"
    /\ mpc = "waiting"
    /\ isShutting' = TRUE
    /\ shpc' = [shpc EXCEPT ![i] = "signal"]
    /\ UNCHANGED <<now, cb, cbVars, ctxDone, stopClosed, wg, connectionState,
                   conn, greeter, lastError, reconnectCount, conns, metrics,
                   mpc, pc, rcCount, retryVars>>
    /\ UNCHANGED <<histVars, semVars, snapshot, jitterVars>>

\* Shutdown(), its critical section: return at once when the flag is set,
\* set it otherwise.  Shutdown() is invoked by the signal handler that Run
\* installs, and by any other holder of the client, while Run is running.
ShutdownEnter(i) ==
    /\ shpc[i] = "idle"
    /\ mpc = "waiting"
    /\ IF isShutting
       THEN /\ shpc' = [shpc EXCEPT ![i] = "noop"]
            /\ UNCHANGED isShutting
       ELSE /\ isShutting' = TRUE
            /\ shpc' = [shpc EXCEPT ![i] = "signal"]
    /\ UNCHANGED <<now, cb, cbVars, ctxDone, stopClosed, wg, connectionState,
                   conn, greeter, lastError, reconnectCount, conns, metrics,
                   mpc, pc, rcCount, retryVars>>
    /\ UNCHANGED <<histVars, semVars, snapshot, jitterVars>>

\* Shutdown(): c.cancel() and close(c.stopChan).  No goroutine receives from
\* stopChan, so the two are one step.
ShutdownSignal(i) ==
    /\ shpc[i] = "signal"
    /\ ctxDone' = TRUE
    /\ stopClosed' = stopClosed + 1
    /\ shpc' = [shpc EXCEPT ![i] = "wait"]
    /\ UNCHANGED <<now, cb, cbVars, isShutting, wg, connectionState, conn,
                   greeter, lastError, reconnectCount, conns, metrics, mpc, pc,
                   rcCount, retryVars>>
    /\ UNCHANGED <<histVars, semVars, snapshot, jitterVars>>

\* Shutdown(): c.wg.Wait() returns.
ShutdownWait(i) ==
    /\ shpc[i] = "wait"
    /\ wg = 0
    /\ shpc' = [shpc EXCEPT ![i] = "returned"]
    /\ UNCHANGED <<now, cb, cbVars, clientVars, metrics, mpc, pc, rcCount,
                   retryVars>>
    /\ UNCHANGED <<histVars, semVars, snapshot, jitterVars>>

(***************************************************************************)
(* The connection manager: reconnect() and the connect() it calls          *)
(* (part_000, lines 149-192 and 266-320), run by loop p.                   *)
(***************************************************************************)
\* Where loop p continues when its reconnect() returns.
AfterReconnect(p) == IF p = "health" THEN "tick" ELSE "wait"

ReconnectBackoff(retryCount) ==
    IF retryCount * retryCount + 1 > MaxReconnectBackoff
    THEN MaxReconnectBackoff
    ELSE retryCount * retryCount + 1

\* reconnect(): the IsShutting() check at its head.
ReconnectEnter(p) ==
    /\ pc[p] = "rc_enter"
    /\ pc' = [pc EXCEPT ![p] = IF IsShutting THEN AfterReconnect(p) ELSE "rc_close"]
    /\ UNCHANGED <<now, cb, cbVars, clientVars, metrics, mpc, shpc, rcCount,
                   retryVars>>
    /\ UNCHANGED <<histVars, semVars, snapshot, jitterVars>>

\* reconnect(): state = Connecting under the lock, then oldConn.Close();
\* c.conn keeps pointing at the closed connection.
ReconnectClose(p) ==
    /\ pc[p] = "rc_close"
    /\ connectionState' = StateConnecting
    /\ conns' = IF conn # 0 THEN CloseConn(conns, conn) ELSE conns
    /\ rcCount' = [rcCount EXCEPT ![p] = 0]
    /\ dials' = [dials EXCEPT ![p] = 0]
    /\ exhaustions' = [exhaustions EXCEPT ![p] = 0]
    /\ pc' = [pc EXCEPT ![p] = "rc_loop"]
    /\ UNCHANGED <<attemptsDone, cbReports>>
    /\ UNCHANGED <<now, cb, cbVars, isShutting, ctxDone, stopClosed, wg, conn,
                   greeter, lastError, reconnectCount, metrics, mpc, shpc,
                   retryVars>>
    /\ UNCHANGED <<semVars, snapshot, jitterVars>>

\* reconnect(): the head of one loop iteration: IsShutting(), then the
\* first critical section of connect().
ReconnectAttempt(p) ==
    /\ pc[p] = "rc_loop"
    /\ IF IsShutting
       THEN /\ pc' = [pc EXCEPT ![p] = AfterReconnect(p)]
            /\ UNCHANGED <<connectionState, dials>>
       ELSE /\ connectionState' = StateConnecting
            /\ dials' = [dials EXCEPT ![p] = dials[p] + 1]
            /\ pc' = [pc EXCEPT ![p] = "rc_dial"]
    /\ UNCHANGED <<exhaustions, attemptsDone, cbReports>>
    /\ UNCHANGED <<now, cb, cbVars, isShutting, ctxDone, stopClosed, wg, conn,
                   greeter, lastError, reconnectCount, conns, metrics, mpc,
                   shpc, rcCount, retryVars>>
    /\ UNCHANGED <<semVars, snapshot, jitterVars>>

\* connect(): grpc.NewClient returns, and the second critical section.
ReconnectDial(p) ==
    /\ pc[p] = "rc_dial"
    /\ \E ok \in BOOLEAN :
         IF ok
         THEN /\ Len(conns) < MaxConns
              /\ conns' = Append(conns, 0)
              /\ conn' = Len(conns) + 1
              /\ greeter' = Len(conns) + 1
              /\ connectionState' = StateConnected
              /\ lastError' = "nil"
              /\ reconnectCount' = reconnectCount + 1
              /\ metrics' = RecordReconnect(metrics)
              /\ pc' = [pc EXCEPT ![p] = AfterReconnect(p)]
         ELSE /\ connectionState' = StateDisconnected
              /\ lastError' = "dial"
              /\ pc' = [pc EXCEPT ![p] = "rc_sleep"]
              /\ UNCHANGED <<conns, conn, greeter, reconnectCount, metrics>>
    /\ UNCHANGED <<now, cb, cbVars, isShutting, ctxDone, stopClosed, wg, mpc,
                   shpc, rcCount, retryVars>>
    /\ UNCHANGED <<histVars, semVars, snapshot, jitterVars>>

\* reconnect(): time.Sleep(backoff) returns, retryCount++; after the last
\* attempt the loop ends and the exhaustion is recorded.
ReconnectSleep(p) ==
    /\ pc[p] = "rc_sleep"
    /\ rcCount' = [rcCount EXCEPT ![p] = rcCount[p] + 1]
    /\ IF rcCount[p] + 1 < MaxReconnectRetries
       THEN /\ pc' = [pc EXCEPT ![p] = "rc_loop"]
            /\ UNCHANGED <<connectionState, lastError, exhaustions>>
       ELSE /\ connectionState' = StateDisconnected
            /\ lastError' = "exhausted"
            /\ exhaustions' = [exhaustions EXCEPT ![p] = exhaustions[p] + 1]
            /\ pc' = [pc EXCEPT ![p] = AfterReconnect(p)]
    /\ UNCHANGED <<dials, attemptsDone, cbReports>>
    /\ UNCHANGED <<now, cb, cbVars, isShutting, ctxDone, stopClosed, wg, conn,
                   greeter, reconnectCount, conns, metrics, mpc, shpc,
                   retryVars>>
    /\ UNCHANGED <<semVars, snapshot, jitterVars>>

(***************************************************************************)
(* The health checker (part_000, lines 194-263).                           *)
(***************************************************************************)
\* healthCheckLoop: ctx.Done() is selected.
HealthDone ==
    /\ pc["health"] = "tick"
    /\ ctxDone
    /\ pc' = [pc EXCEPT !["health"] = "exit"]
    /\ wg' = wg - 1
    /\ UNCHANGED <<now, cb, cbVars, isShutting, ctxDone, stopClosed,
                   connectionState, conn, greeter, lastError, reconnectCount,
                   conns, metrics, mpc, shpc, rcCount, retryVars>>
    /\ UNCHANGED <<histVars, semVars, snapshot, jitterVars>>

\* A health check that leaves a disconnected client alone.
HealthTick_NoReconnect ==
    /\ pc["health"] = "tick"
    /\ pc' = [pc EXCEPT !["health"] =
                IF IsShutting THEN "tick"
                ELSE CASE connectionState = StateConnected ->
                             IF conn # 0 THEN "probe" ELSE "tick"
                       [] OTHER -> "tick"]
    /\ UNCHANGED <<now, cb, cbVars, clientVars, metrics, mpc, shpc, rcCount,
                   retryVars>>
    /\ UNCHANGED <<histVars, semVars, snapshot, jitterVars>>

\* healthCheckLoop: the ticker is selected; checkConnectionHealth() up to
\* its probe or its reconnect().
HealthTick ==
    /\ pc["health"] = "tick"
    /\ pc' = [pc EXCEPT !["health"] =
                IF IsShutting THEN "tick"
                ELSE CASE connectionState = StateDisconnected -> "rc_enter"
                       [] connectionState = StateConnected ->
                             IF conn # 0 THEN "probe" ELSE "tick"
                       [] connectionState = StateConnecting -> "tick"
                       [] connectionState = StateDegraded -> "rc_enter"]
    /\ UNCHANGED <<now, cb, cbVars, clientVars, metrics, mpc, shpc, rcCount,
                   retryVars>>
    /\ UNCHANGED <<histVars, semVars, snapshot, jitterVars>>

\* A probe whose failure is recorded but not followed by reconnect().
ProbeReturn_NoReconnect ==
    /\ pc["health"] = "probe"
    /\ \E ok \in BOOLEAN :
         IF ok
         THEN /\ greeter # 0 /\ conns[greeter] = 0 /\ ~ctxDone
              /\ UNCHANGED <<connectionState, lastError>>
         ELSE /\ connectionState' = StateDisconnected
              /\ lastError' = "probe"
    /\ pc' = [pc EXCEPT !["health"] = "tick"]
    /\ UNCHANGED <<now, cb, cbVars, isShutting, ctxDone, stopClosed, wg, conn,
                   greeter, reconnectCount, conns, metrics, mpc, shpc, rcCount,
                   retryVars>>
    /\ UNCHANGED <<histVars, semVars, snapshot, jitterVars>>

\* checkConnectionHealth(): the probe SayHello returns.
ProbeReturn ==
    /\ pc["health"] = "probe"
    /\ \E ok \in BOOLEAN :
         IF ok
         THEN /\ greeter # 0 /\ conns[greeter] = 0 /\ ~ctxDone
              /\ pc' = [pc EXCEPT !["health"] = "tick"]
              /\ UNCHANGED <<connectionState, lastError>>
         ELSE /\ connectionState' = StateDisconnected
              /\ lastError' = "probe"
              /\ pc' = [pc EXCEPT !["health"] = "rc_enter"]
    /\ UNCHANGED <<now, cb, cbVars, isShutting, ctxDone, stopClosed, wg, conn,
                   greeter, reconnectCount, conns, metrics, mpc, shpc, rcCount,
                   retryVars>>
    /\ UNCHANGED <<histVars, semVars, snapshot, jitterVars>>

(***************************************************************************)
(* The scheduler (part_002) and the retry executor (retry.go).             *)
(***************************************************************************)
isFatalError(err) == FALSE

\* The backoff without its cap.
RetryBackoff_NoCap(a) == a * a

\* backoff of executeWithRetry before attempt number `a`.
RetryBackoff(a) == IF a * a > MaxRetryBackoff THEN MaxRetryBackoff ELSE a * a

\* calculateJitteredInterval() for the draw rand.Float64() = draw/NumDraws.
\* With jitterRange = jitterPercent/100 * requestInterval the interval is
\* requestInterval + draw/NumDraws * jitterRange - jitterRange/2; `scaled`
\* is that number times 200*NumDraws, so that it is an integer.
\* time.Duration(interval) truncates.
calculateJitteredInterval(interval, percent, draw) ==
    IF percent <= 0 THEN interval
    ELSE LET scale  == 200 * NumDraws
             scaled == interval * scale + percent * interval * (2 * draw - NumDraws)
         IN  IF scaled < Millisecond * scale THEN Millisecond
             ELSE scaled \div scale

\* mainLoop: the head of one iteration computes waitInterval.
MainLoopWait ==
    /\ \E draw \in 0..(NumDraws - 1) :
         waitInterval' =
             calculateJitteredInterval(requestInterval, jitterPercent, draw)
    /\ UNCHANGED <<now, cb, cbVars, clientVars, metrics, mpc, shpc, pc,
                   rcCount, retryVars, histVars, semVars, snapshot,
                   requestInterval, jitterPercent>>

\* mainLoop: ctx.Done() is selected.
MainLoopDone ==
    /\ pc["sched"] = "wait"
    /\ ctxDone
    /\ pc' = [pc EXCEPT !["sched"] = "exit"]
    /\ wg' = wg - 1
    /\ UNCHANGED <<now, cb, cbVars, isShutting, ctxDone, stopClosed,
                   connectionState, conn, greeter, lastError, reconnectCount,
                   conns, metrics, mpc, shpc, rcCount, retryVars>>
    /\ UNCHANGED <<histVars, semVars, snapshot, jitterVars>>

\* Whether the cycle that begins in the current state reaches
\* executeSayHello().
StartsSequence ==
    /\ ~isShutting
    /\ AllowRequestRead(cb, now) # "deny"
    /\ connectionState = StateConnected

\* The cap on the request counters: from a closed breaker a retry sequence
\* is begun only when all its attempts fit under MaxRequests; a sequence
\* begun as a HalfOpen probe runs until an attempt would exceed it.
WithinMaxRequests ==
    \/ metrics.totalRequests + MaxRetries + 1 <= MaxRequests
    \/ cb.state # CBStateClosed /\ metrics.totalRequests < MaxRequests

\* A cycle that counts a denied request as a failed one.
MakeRequest_CountsSkipped ==
    /\ pc["sched"] = "wait"
    /\ StartsSequence => WithinMaxRequests
    /\ metrics.totalRequests < MaxRequests
    /\ IF isShutting
       THEN UNCHANGED <<cb, lastRet, pc, metrics>>
       ELSE LET r == AllowRequestRead(cb, now) IN
            /\ cb' = IF r = "upgrade" THEN AllowRequestWrite(cb, now) ELSE cb
            /\ lastRet' = IF r = "deny" THEN "false" ELSE "true"
            /\ metrics' = IF r = "deny"
                          THEN RecordRequest(metrics, FALSE, 0, now)
                          ELSE metrics
            /\ pc' = IF r # "deny" /\ connectionState = StateConnected
                     THEN [pc EXCEPT !["sched"] = "retry"]
                     ELSE pc
    /\ UNCHANGED <<now, cpc, closedStreak, stayAdmits, staySuccesses,
                   clientVars, mpc, shpc, rcCount, retryVars>>
    /\ UNCHANGED <<histVars, semVars, snapshot, jitterVars>>

\* A cycle that also calls reconnect() when the connection is down.
MakeRequest_ReconnectsOnDisconnected ==
    /\ pc["sched"] = "wait"
    /\ StartsSequence => WithinMaxRequests
    /\ IF isShutting
       THEN UNCHANGED <<cb, lastRet, pc>>
       ELSE LET r == AllowRequestRead(cb, now) IN
            /\ cb' = IF r = "upgrade" THEN AllowRequestWrite(cb, now) ELSE cb
            /\ lastRet' = IF r = "deny" THEN "false" ELSE "true"
            /\ pc' = IF r = "deny" THEN pc
                     ELSE IF connectionState = StateConnected
                     THEN [pc EXCEPT !["sched"] = "retry"]
                     ELSE IF connectionState = StateConnecting
                     THEN pc
                     ELSE [pc EXCEPT !["sched"] = "rc_enter"]
    /\ UNCHANGED <<now, cpc, closedStreak, stayAdmits, staySuccesses,
                   clientVars, metrics, mpc, shpc, rcCount, retryVars>>
    /\ UNCHANGED <<histVars, semVars, snapshot, jitterVars>>

\* A cycle that sends its request whatever the connection state.
MakeRequest_IgnoresState ==
    /\ pc["sched"] = "wait"
    /\ ~isShutting /\ AllowRequestRead(cb, now) # "deny" => WithinMaxRequests
    /\ IF isShutting
       THEN UNCHANGED <<cb, lastRet, pc>>
       ELSE LET r == AllowRequestRead(cb, now) IN
            /\ cb' = IF r = "upgrade" THEN AllowRequestWrite(cb, now) ELSE cb
            /\ lastRet' = IF r = "deny" THEN "false" ELSE "true"
            /\ pc' = IF r = "deny" THEN pc
                     ELSE [pc EXCEPT !["sched"] = "retry"]
    /\ UNCHANGED <<now, cpc, closedStreak, stayAdmits, staySuccesses,
                   clientVars, metrics, mpc, shpc, rcCount, retryVars>>
    /\ UNCHANGED <<histVars, semVars, snapshot, jitterVars>>

\* mainLoop: time.After fires; makeRequest() up to reconnect() or to
\* executeWithRetry()'s loop.  Only this goroutine uses the breaker, so the
\* two locked parts of AllowRequest() are one step here.  A cycle that
\* would start a retry sequence is begun only WithinMaxRequests.
MakeRequest ==
    /\ pc["sched"] = "wait"
    /\ StartsSequence => WithinMaxRequests
    /\ IF isShutting
       THEN UNCHANGED <<cb, lastRet, pc, retryVars>>
       ELSE LET r == AllowRequestRead(cb, now) IN
            /\ cb' = IF r = "upgrade" THEN AllowRequestWrite(cb, now) ELSE cb
            /\ lastRet' = IF r = "deny" THEN "false" ELSE "true"
            /\ IF r = "deny"
               THEN UNCHANGED <<pc, retryVars>>
               ELSE CASE connectionState = StateDegraded ->
                           /\ pc' = [pc EXCEPT !["sched"] = "rc_enter"]
                           /\ UNCHANGED retryVars
                      [] connectionState = StateConnected ->
                           /\ pc' = [pc EXCEPT !["sched"] = "retry"]
                           /\ UNCHANGED retryVars
                      [] OTHER -> UNCHANGED <<pc, retryVars>>
    /\ UNCHANGED <<now, cpc, closedStreak, stayAdmits, staySuccesses,
                   clientVars, metrics, mpc, shpc, rcCount>>
    /\ UNCHANGED <<histVars, semVars, snapshot, jitterVars>>

\* executeWithRetry: the head of one loop iteration: IsShutting(), then
\* either the backoff sleep begins or (first attempt) the operation is
\* called.
RetryCheck ==
    /\ pc["sched"] = "retry"
    /\ IF IsShutting
       THEN /\ pc' = [pc EXCEPT !["sched"] = "retried"]
            /\ retryEnd' = "shutdown"
            /\ UNCHANGED <<sleeps, started, rpcConn>>
       ELSE IF attempt > 0
            THEN /\ pc' = [pc EXCEPT !["sched"] = "sleep"]
                 /\ sleeps' = Append(sleeps, RetryBackoff(attempt))
                 /\ UNCHANGED <<started, rpcConn, retryEnd>>
            ELSE /\ pc' = [pc EXCEPT !["sched"] = "rpc"]
                 /\ started' = started + 1
                 /\ rpcConn' = greeter
                 /\ UNCHANGED <<sleeps, retryEnd>>
    /\ UNCHANGED <<now, cb, cbVars, clientVars, metrics, mpc, shpc, rcCount,
                   attempt, lastErr>>
    /\ UNCHANGED <<histVars, semVars, snapshot, jitterVars>>

\* executeWithRetry: time.Sleep(backoff) returns and the operation is called.
RetryWake ==
    /\ pc["sched"] = "sleep"
    /\ pc' = [pc EXCEPT !["sched"] = "rpc"]
    /\ started' = started + 1
    /\ rpcConn' = greeter
    /\ UNCHANGED <<now, cb, cbVars, clientVars, metrics, mpc, shpc, rcCount,
                   attempt, lastErr, sleeps, retryEnd>>
    /\ UNCHANGED <<histVars, semVars, snapshot, jitterVars>>

\* The operation of executeSayHello returns: the outcome is reported to the
\* breaker and to the metrics, and executeWithRetry decides how to go on.
RpcReturn ==
    /\ pc["sched"] = "rpc"
    /\ metrics.totalRequests < MaxRequests
    /\ \E out \in Outcomes :
         /\ out = "ok" => /\ rpcConn # 0 /\ conns[rpcConn] = 0 /\ ~ctxDone
                          /\ cb.state = CBStateClosed =>
                                cb.successCount < MaxSuccessCount
         /\ cb' = IF out = "ok" THEN RecordSuccessCB(cb, now)
                                ELSE RecordFailureCB(cb, now)
         /\ cbReports' = cbReports + 1
         /\ metrics' = RecordRequest(metrics, out = "ok", 0, now)
         /\ attemptsDone' = attemptsDone + 1
         /\ UNCHANGED <<dials, exhaustions>>
         /\ IF out = "ok"
            THEN /\ pc' = [pc EXCEPT !["sched"] = "retried"]
                 /\ retryEnd' = "success"
                 /\ UNCHANGED <<attempt, lastErr>>
            ELSE /\ lastErr' = out
                 /\ IF isFatalError(out)
                    THEN /\ pc' = [pc EXCEPT !["sched"] = "retried"]
                         /\ retryEnd' = "fatal"
                         /\ UNCHANGED attempt
                    ELSE IF attempt = MaxRetries
                         THEN /\ pc' = [pc EXCEPT !["sched"] = "retried"]
                              /\ retryEnd' = "exhausted"
                              /\ UNCHANGED attempt
                         ELSE /\ pc' = [pc EXCEPT !["sched"] = "retry"]
                              /\ attempt' = attempt + 1
                              /\ UNCHANGED retryEnd
    /\ UNCHANGED <<now, cbVars, clientVars, mpc, shpc, rcCount, rpcConn,
                   sleeps, started>>
    /\ UNCHANGED <<semVars, snapshot, jitterVars>>

\* executeWithRetry, executeSayHello and makeRequest return; mainLoop goes
\* back to its select.  The locals of the finished sequence are dead.
RetryReturn ==
    /\ pc["sched"] = "retried"
    /\ pc' = [pc EXCEPT !["sched"] = "wait"]
    /\ attempt' = 0
    /\ lastErr' = "nil"
    /\ rpcConn' = 0
    /\ sleeps' = <<>>
    /\ started' = 0
    /\ retryEnd' = "none"
    /\ UNCHANGED <<now, cb, cbVars, clientVars, metrics, mpc, shpc, rcCount>>
    /\ UNCHANGED <<histVars, semVars, snapshot, jitterVars>>

\* The state before NewGRPCClient is called, but for the breaker and the
\* configuration.
InitRest ==
    /\ now = 0
    /\ cpc = [c \in Callers |-> "idle"]
    /\ lastRet = "none"
    /\ closedStreak = 0
    /\ stayAdmits = 0
    /\ staySuccesses = 0
    /\ isShutting = FALSE
    /\ ctxDone = FALSE
    /\ stopClosed = 0
    /\ wg = 0
    /\ connectionState = StateDisconnected
    /\ conn = 0
    /\ greeter = 0
    /\ lastError = "nil"
    /\ reconnectCount = 0
    /\ conns = <<>>
    /\ metrics = NewMetrics(0)
    /\ mpc = "new"
    /\ shpc = [i \in ShutdownCallers |-> "idle"]
    /\ pc = [p \in Loops |-> "off"]
    /\ rcCount = [p \in Loops |-> 0]
    /\ attempt = 0
    /\ lastErr = "nil"
    /\ rpcConn = 0
    /\ sleeps = <<>>
    /\ started = 0
    /\ retryEnd = "none"
    /\ dials = [p \in Loops |-> 0]
    /\ exhaustions = [p \in Loops |-> 0]
    /\ attemptsDone = 0
    /\ cbReports = 0
    /\ sem = NewSemaphore(SemCapacity)
    /\ spc = [w \in Workers |-> "idle"]
    /\ held = [w \in Workers |-> 0]
    /\ semRet = [w \in Workers |-> <<>>]
    /\ snapshot = <<>>
    /\ waitInterval = 0 - 1

\* The state before NewGRPCClient is called, but for the configuration.
InitClient ==
    /\ cb = NewCircuitBreaker(FailureThreshold, SuccessThreshold, OpenDuration)
    /\ InitRest

\* The configuration loadConfig() produces from an empty environment.
Init ==
    /\ InitClient
    /\ requestInterval = DefaultRequestInterval
    /\ jitterPercent = DefaultJitterPercent

NextCB ==
    \/ \E c \in Callers : AllowRequest(c)
    \/ \E c \in Callers : AllowRequestUpgrade(c)
    \/ \E c \in Callers : RecordSuccess(c)
    \/ \E c \in Callers : RecordFailure(c)
    \/ Tick

SpecCB == Init /\ [][NextCB]_vars

\* The breaker for every (failureThreshold, successThreshold, openDuration)
\* a caller of NewCircuitBreaker may pass.
InitCBParam ==
    /\ \E ft \in FailureThresholds, st \in SuccessThresholds,
          od \in OpenDurations :
          cb = NewCircuitBreaker(ft, st, od)
    /\ InitRest
    /\ requestInterval = DefaultRequestInterval
    /\ jitterPercent = DefaultJitterPercent

SpecCBParam == InitCBParam /\ [][NextCB]_vars

\* The scheduler with its retry executor, breaker and metrics, under
\* Shutdown() and the passage of time; the health checker does not run.
NextSched ==
    \/ NewGRPCClient
    \/ Run
    \/ MakeRequest
    \/ MainLoopDone
    \/ RetryCheck
    \/ RetryWake
    \/ RpcReturn
    \/ RetryReturn
    \/ \E i \in ShutdownCallers : ShutdownEnter(i)
    \/ \E i \in ShutdownCallers : ShutdownSignal(i)
    \/ Tick

SpecSched == Init /\ [][NextSched]_vars

\* The scheduler, with snapshots of the metrics taken at any moment.
NextSnap ==
    \/ NextSched
    \/ MetricsGetMetrics

SpecSnap == Init /\ [][NextSnap]_vars

\* The whole client.  Nothing but the breaker reads the clock, and the
\* sleeps and timers end at any moment, so the clock stands still here.
Next ==
    \/ NewGRPCClient
    \/ Run
    \/ Cleanup
    \/ \E i \in ShutdownCallers : ShutdownEnter(i)
    \/ \E i \in ShutdownCallers : ShutdownSignal(i)
    \/ \E i \in ShutdownCallers : ShutdownWait(i)
    \/ \E p \in Loops : ReconnectEnter(p)
    \/ \E p \in Loops : ReconnectClose(p)
    \/ \E p \in Loops : ReconnectAttempt(p)
    \/ \E p \in Loops : ReconnectDial(p)
    \/ \E p \in Loops : ReconnectSleep(p)
    \/ HealthDone
    \/ HealthTick
    \/ ProbeReturn
    \/ MainLoopDone
    \/ MakeRequest
    \/ RetryCheck
    \/ RetryWake
    \/ RpcReturn
    \/ RetryReturn

Spec == Init /\ [][Next]_vars

\* mainLoop's computation of its wait, for every configuration.
InitJitter ==
    /\ InitClient
    /\ requestInterval \in RequestIntervals
    /\ jitterPercent \in JitterPercents

NextJitter == MainLoopWait

SpecJitter == InitJitter /\ [][NextJitter]_vars

\* Goroutines that share the client's semaphore; Release() is called only
\* by a goroutine that holds a slot.
NextSem ==
    \/ \E w \in Workers : Acquire(w)
    \/ \E w \in Workers : Release(w)
    \/ \E w \in Workers : TryAcquire(w)
    \/ \E w \in Workers : TryAcquireSlot(w)
    \/ \E w \in Workers : TryAcquireTimeout(w)

SpecSem == Init /\ [][NextSem]_vars

\* The metrics collector under calls of its methods.
NextMetrics ==
    \/ MetricsRecordRequest
    \/ MetricsRecordReconnect
    \/ MetricsUpdateCircuitBreakerState
    \/ MetricsGetMetrics

SpecMetrics == Init /\ [][NextMetrics]_vars

\* The health checker of a client, with Shutdown().  The ticker keeps
\* firing, and a probe, a dial and a backoff sleep each return.
NextHeal ==
    \/ NewGRPCClient
    \/ Run
    \/ \E i \in ShutdownCallers : ShutdownEnter(i)
    \/ \E i \in ShutdownCallers : ShutdownSignal(i)
    \/ \E p \in Loops : ReconnectEnter(p)
    \/ \E p \in Loops : ReconnectClose(p)
    \/ \E p \in Loops : ReconnectAttempt(p)
    \/ \E p \in Loops : ReconnectDial(p)
    \/ \E p \in Loops : ReconnectSleep(p)
    \/ HealthDone
    \/ HealthTick
    \/ ProbeReturn

SpecHeal ==
    /\ Init
    /\ [][NextHeal]_vars
    /\ WF_vars(HealthTick)
    /\ WF_vars(ProbeReturn)
    /\ WF_vars(ReconnectEnter("health"))
    /\ WF_vars(ReconnectClose("health"))
    /\ WF_vars(ReconnectAttempt("health"))
    /\ WF_vars(ReconnectDial("health"))
    /\ WF_vars(ReconnectSleep("health"))

(***************************************************************************)
(* Properties of the circuit breaker, checked under SpecCB.                *)
(***************************************************************************)
\* Clock values at which less than openDuration has elapsed since breaker
\* b's last state change.
EarlyTimes(b) ==
    {t \in 0..(MaxTime + TickStep) :
        t >= b.lastStateChange /\ Since(t, b.lastStateChange) < b.openDuration}

\* C1: in Closed, the RecordFailure() that completes failureThreshold
\* consecutive failures (none separated by a RecordSuccess()) leaves the
\* breaker Open, where AllowRequest() returns false at every time less than
\* openDuration later; a RecordFailure() that completes fewer leaves it
\* Closed; a RecordSuccess() in Closed resets failureCount to 0.
C1_ConsecutiveFailuresOpen ==
    [][\A c \in Callers :
         /\ (RecordFailure(c) /\ cb.state = CBStateClosed) =>
               IF closedStreak + 1 >= FailureThreshold
               THEN /\ cb'.state = CBStateOpen
                    /\ \A t \in EarlyTimes(cb') : AllowRequestRead(cb', t) = "deny"
               ELSE cb'.state = CBStateClosed
         /\ (RecordSuccess(c) /\ cb.state = CBStateClosed) =>
               /\ cb'.failureCount = 0
               /\ cb'.state = CBStateClosed]_vars

\* The breaker has just been opened by failureThreshold consecutive failures
\* and has since rejected a request.
C1_Witness ==
    /\ cb.state = CBStateOpen
    /\ closedStreak = FailureThreshold
    /\ Since(now, cb.lastStateChange) < OpenDuration
    /\ lastRet = "false"

\* C2: in Open, an AllowRequest() made while elapsed < openDuration returns
\* false and changes nothing; one made when elapsed >= openDuration goes on
\* to set HalfOpen and returns true; and the breaker leaves Open only by
\* that write of AllowRequest(), to HalfOpen.
C2_OpenLeavesOnlyByTimeout ==
    [][/\ \A c \in Callers :
            /\ (AllowRequest(c) /\ cb.state = CBStateOpen
                    /\ Since(now, cb.lastStateChange) < OpenDuration) =>
                  (lastRet' = "false" /\ cb' = cb /\ cpc'[c] = "idle")
            /\ (AllowRequest(c) /\ cb.state = CBStateOpen
                    /\ Since(now, cb.lastStateChange) >= OpenDuration) =>
                  cpc'[c] = "upgrade"
            /\ AllowRequestUpgrade(c) =>
                  (lastRet' = "true" /\ cb'.state = CBStateHalfOpen)
       /\ (cb.state = CBStateOpen /\ cb'.state # CBStateOpen) =>
            /\ cb'.state = CBStateHalfOpen
            /\ \E c \in Callers : AllowRequestUpgrade(c)]_vars

\* An AllowRequest() has just moved the breaker from Open to HalfOpen, after
\* the open duration, and returned true.
C2_Witness ==
    /\ cb.state = CBStateHalfOpen
    /\ cb.lastStateChange = now
    /\ now >= OpenDuration
    /\ cb.halfOpenCallCount = 0
    /\ stayAdmits = 1
    /\ lastRet = "true"

\* C3: the elapsed-time check and the write of HalfOpen are one atomic step:
\* whenever AllowRequest() sets HalfOpen (and resets halfOpenCallCount), the
\* breaker is Open and at least openDuration has elapsed since it opened.
C3_AtomicHalfOpenTransition ==
    [][(\E c \in Callers : AllowRequestUpgrade(c)) =>
          /\ cb.state = CBStateOpen
          /\ Since(now, cb.lastStateChange) >= OpenDuration]_vars

\* C4: in HalfOpen one RecordFailure() moves the breaker to Open at once, and
\* a RecordSuccess() that leaves successCount below successThreshold keeps
\* it HalfOpen, so success, success, failure never passes through Closed.
C4_HalfOpenFailureOpens ==
    [][\A c \in Callers :
         /\ (RecordFailure(c) /\ cb.state = CBStateHalfOpen) =>
               (cb'.state = CBStateOpen /\ cb'.lastStateChange = now)
         /\ (RecordSuccess(c) /\ cb.state = CBStateHalfOpen
                 /\ cb.successCount + 1 < SuccessThreshold) =>
               cb'.state = CBStateHalfOpen]_vars

\* The breaker is Open after exactly three reports in one HalfOpen stay
\* (halfOpenCallCount is reset on entering HalfOpen), the last of them the
\* failure that opened it, with no visit of Closed since the breaker first
\* opened (failureCount is reset only on entering Closed).
C4_Witness ==
    /\ cb.state = CBStateOpen
    /\ cb.halfOpenCallCount = SuccessThreshold
    /\ cb.failureCount = FailureThreshold + 1

\* C5: during one stay in HalfOpen at most halfOpenMaxCalls calls of
\* AllowRequest() return true.
C5_HalfOpenAdmitsAtMostMax ==
    cb.state = CBStateHalfOpen => stayAdmits <= cb.halfOpenMaxCalls

(***************************************************************************)
(* Properties of the retry executor, checked under SpecSched.              *)
(***************************************************************************)
\* min(10s, k*k seconds)
ExpectedBackoff(k) == IF k * k < 10 THEN k * k ELSE 10

\* C6: a sequence in which every attempt fails and no shutdown is seen ends
\* after exactly MaxRetries+1 attempts; the sleep before attempt k is
\* min(10s, k*k s), so the sleeps never decrease and never exceed 10s; and
\* the attempt that succeeds ends the sequence.
C6_RetryAttemptsAndBackoff ==
    /\ [](/\ started <= MaxRetries + 1
          /\ Len(sleeps) <= MaxRetries
          /\ \A k \in 1..Len(sleeps) : sleeps[k] = ExpectedBackoff(k)
          /\ \A k \in 1..(Len(sleeps) - 1) : sleeps[k] <= sleeps[k + 1]
          /\ (pc["sched"] = "retried" /\ retryEnd \notin {"success", "shutdown"}) =>
                (started = MaxRetries + 1 /\ Len(sleeps) = MaxRetries))
    /\ [][metrics'.successfulRequests > metrics.successfulRequests =>
             (pc'["sched"] = "retried" /\ retryEnd' = "success")]_vars
    /\ [][retryEnd = "success" => started' <= started]_vars

\* executeWithRetry has returned after MaxRetries+1 failed attempts, with no
\* shutdown, the last sleep capped at 10s.
C6_Witness ==
    /\ pc["sched"] = "retried"
    /\ retryEnd = "exhausted"
    /\ ~isShutting
    /\ started = MaxRetries + 1
    /\ Len(sleeps) = MaxRetries
    /\ sleeps[MaxRetries] = 10
    /\ metrics.failedRequests = MaxRetries + 1

\* C7: once an attempt has returned a fatal error, the sequence neither
\* sleeps nor starts an attempt again.
C7_FatalErrorStopsRetries ==
    [][lastErr = "fatal" =>
          (started' <= started /\ Len(sleeps') <= Len(sleeps))]_vars

\* C8: no attempt of the operation starts while the shutdown flag is set.
C8_NoAttemptAfterShutdown ==
    [][started' > started => ~isShutting]_vars

(***************************************************************************)
(* Properties of the facade, checked under Spec.                           *)
(***************************************************************************)
\* The invocations of Shutdown() that went past its critical section.
TearingDown == {i \in ShutdownCallers : shpc[i] \in {"signal", "wait", "returned"}}

\* C9: the shutdown flag is set once and never cleared; at most one
\* invocation of Shutdown() performs the teardown, so stopChan is closed at
\* most once; every other invocation returns from its critical section
\* having changed nothing.
C9_ShutdownOnce ==
    /\ [](/\ stopClosed <= 1
          /\ Cardinality(TearingDown) <= 1
          /\ isShutting <=> TearingDown # {}
          /\ stopClosed = 1 => (ctxDone /\ isShutting))
    /\ [][/\ isShutting => isShutting'
          /\ \A i \in ShutdownCallers :
               /\ (ShutdownEnter(i) /\ isShutting) =>
                     (shpc'[i] = "noop" /\ UNCHANGED <<clientVars, metrics, cb, pc, mpc>>)
               /\ shpc[i] = "noop" => shpc'[i] = "noop"]_vars

\* Two invocations of Shutdown() have both returned: one tore down, the
\* other was a no-op.
C9_Witness ==
    /\ isShutting
    /\ stopClosed = 1
    /\ \E i, j \in ShutdownCallers : shpc[i] = "returned" /\ shpc[j] = "noop"

\* C10: no connection has Close() called on it more than once.
C10_ConnectionClosedAtMostOnce ==
    \A k \in 1..Len(conns) : conns[k] <= 1

\* C11: cleanup() closes the connection only after mainLoop and
\* healthCheckLoop, with every reconnect() and executeWithRetry() running
\* inside them, have exited; once cleanup() has run, neither loop takes a
\* step.
C11_ReleaseAfterLoopsExit ==
    /\ [](mpc = "done" => \A p \in Loops : pc[p] = "exit")
    /\ [][Cleanup => (wg = 0 /\ \A p \in Loops : pc[p] = "exit")]_vars
    /\ [][mpc = "done" =>
             UNCHANGED <<pc, rcCount, retryVars, histVars, metrics, cb,
                         connectionState, conn, greeter, conns>>]_vars

\* cleanup() has run after a shutdown of a client that had performed
\* request attempts and a reconnect().
C11_Witness ==
    /\ mpc = "done"
    /\ stopClosed = 1
    /\ attemptsDone > 0
    /\ dials["health"] > 0
    /\ conn # 0 /\ conns[conn] >= 1

\* C12: once Shutdown() has cancelled the context, neither loop begins a
\* request attempt or a connect attempt, and a loop that is in a backoff
\* sleep leaves it only to exit.
C12_CancellationEndsLoops ==
    [][ctxDone =>
          /\ started' <= started
          /\ \A p \in Loops :
                /\ dials'[p] <= dials[p]
                /\ pc[p] \in {"sleep", "rc_sleep"} =>
                      pc'[p] \in {pc[p], "exit"}]_vars

\* The positions of a loop inside reconnect().
RcPositions == {"rc_enter", "rc_close", "rc_loop", "rc_dial", "rc_sleep"}

\* C13: one reconnect() calls connect() at most 5 times; when the 5th has
\* failed it returns with state Disconnected, lastError the exhaustion
\* error, and the exhaustion recorded once; when a connect() succeeds it
\* returns at once with state Connected and no exhaustion recorded.
C13_ReconnectBounded ==
    /\ [](\A p \in Loops : dials[p] <= 5 /\ exhaustions[p] <= 1)
    /\ [][\A p \in Loops :
             /\ (pc[p] = "rc_sleep" /\ pc'[p] \notin RcPositions) =>
                   /\ dials'[p] = 5
                   /\ connectionState' = StateDisconnected
                   /\ lastError' = "exhausted"
                   /\ exhaustions'[p] = 1
             /\ (pc[p] = "rc_dial" /\ pc'[p] \notin RcPositions) =>
                   /\ dials'[p] <= 5
                   /\ connectionState' = StateConnected
                   /\ lastError' = "nil"
                   /\ exhaustions'[p] = 0
             /\ exhaustions'[p] > exhaustions[p] =>
                   (dials[p] = 5 /\ pc[p] = "rc_sleep")]_vars

\* A reconnect() of the health checker has returned after 5 failed
\* connect() calls, with no shutdown.
C13_Witness ==
    /\ ~isShutting
    /\ pc["health"] = "tick"
    /\ dials["health"] = 5
    /\ exhaustions["health"] = 1
    /\ connectionState = StateDisconnected
    /\ lastError = "exhausted"

\* C15: every attempt of the request operation that has returned, whether
\* or not it was the last of its retry sequence, was reported once to the
\* breaker and once to the metrics: totalRequests = successfulRequests +
\* failedRequests = the number of attempts performed.
C15_EveryAttemptRecorded ==
    /\ [](/\ metrics.totalRequests =
                metrics.successfulRequests + metrics.failedRequests
          /\ metrics.totalRequests = attemptsDone
          /\ cbReports = attemptsDone)
    /\ [][attemptsDone' # attemptsDone =>
             /\ attemptsDone' = attemptsDone + 1
             /\ metrics'.totalRequests = metrics.totalRequests + 1
             /\ cbReports' = cbReports + 1]_vars

\* Two attempts of a sequence have failed and were recorded, and the
\* sequence goes on.
C15_Witness ==
    /\ pc["sched"] = "retry"
    /\ attempt = 2
    /\ attemptsDone = 2
    /\ metrics.totalRequests = 2
    /\ metrics.failedRequests = 2
    /\ cb.failureCount = 2

\* C19: when the first connect() fails, NewGRPCClient returns no client,
\* the context is cancelled and neither loop is ever started; when it
\* succeeds, the client it returns is Connected.
C19_ConstructionFailFast ==
    /\ [](mpc = "failed" =>
             /\ ctxDone
             /\ \A p \in Loops : pc[p] = "off"
             /\ wg = 0
             /\ conn = 0 /\ conns = <<>>)
    /\ [][mpc = "failed" => UNCHANGED <<mpc, pc, clientVars, metrics, cb>>]_vars
    /\ [][(mpc = "new" /\ mpc' # "new") =>
             \/ mpc' = "failed"
             \/ /\ mpc' = "constructed"
                /\ connectionState' = StateConnected
                /\ conn' # 0 /\ conns'[conn'] = 0
                /\ lastError' = "nil"
                /\ ~ctxDone']_vars

\* NewGRPCClient has returned an error.
C19_Witness ==
    /\ mpc = "failed"
    /\ ctxDone
    /\ connectionState = StateDisconnected
    /\ lastError = "dial"

\* C20: a cycle of the scheduler in which AllowRequest() returns false
\* starts no attempt, records no metric, reports nothing to the breaker and
\* leaves the connection as it is.
C20_DeniedCycleSkipped ==
    [][(MakeRequest /\ ~isShutting /\ AllowRequestRead(cb, now) = "deny") =>
          /\ lastRet' = "false"
          /\ UNCHANGED <<metrics, cb, cbReports, attemptsDone, retryVars, pc>>
          /\ UNCHANGED <<connectionState, conn, greeter, conns, lastError,
                         reconnectCount>>]_vars

\* The breaker is open after five failed attempts and has denied a cycle.
C20_Witness ==
    /\ lastRet = "false"
    /\ cb.state = CBStateOpen
    /\ pc["sched"] = "wait"
    /\ ~isShutting
    /\ connectionState = StateConnected
    /\ metrics.totalRequests = attemptsDone
    /\ metrics.failedRequests >= FailureThreshold

(***************************************************************************)
(* Properties of the health checker, checked under SpecHeal.               *)
(***************************************************************************)
\* A connect() called by reconnect() returns an error.
DialFails == \E p \in Loops : pc[p] = "rc_dial" /\ pc'[p] = "rc_sleep"

\* C14: while the client is not shutting down, a health check that finds
\* the state Disconnected starts a reconnect(); and if the client never
\* shuts down and from some point on no connect() fails, a constructed
\* client that is Disconnected becomes Connected.
C14_SelfHealing ==
    /\ [][(HealthTick /\ ~isShutting /\ connectionState = StateDisconnected) =>
             pc'["health"] = "rc_enter"]_vars
    /\ ([](~isShutting) /\ <>[][~DialFails]_vars) =>
          ((connectionState = StateDisconnected /\ pc["health"] # "off")
              ~> connectionState = StateConnected)

\* The client is connected again by a reconnect() whose first connect()
\* calls had failed.
C14_Witness ==
    /\ ~isShutting
    /\ connectionState = StateConnected
    /\ metrics.reconnectCount = 1
    /\ rcCount["health"] >= 1
    /\ conn = 2 /\ conns[1] >= 1

(***************************************************************************)
(* Properties of the metrics collector, checked under SpecMetrics.         *)
(***************************************************************************)
\* C16: the success_rate of a snapshot is a finite number: 0 when
\* total_requests is 0, successful_requests / total_requests * 100
\* otherwise.
C16_SuccessRateDefined ==
    \A k \in 1..Len(snapshot) :
        /\ snapshot[k].success_rate.class = "finite"
        /\ snapshot[k].success_rate.milli =
              IF snapshot[k].total_requests = 0 THEN 0
              ELSE (snapshot[k].successful_requests * 100000)
                       \div snapshot[k].total_requests

(***************************************************************************)
(* Properties of calculateJitteredInterval, checked under SpecJitter.      *)
(***************************************************************************)
\* C17: for every jitterPercent in 0..100 and every draw the wait lies
\* within requestInterval -/+ (jitterPercent% * requestInterval)/2 and is
\* at least 1ms; for 30s and 10 percent it lies in [28.5s, 31.5s].  The
\* range is compared after multiplying by 200.
C17_JitterWithinRange ==
    waitInterval # 0 - 1 =>
        /\ 200 * waitInterval >=
              200 * requestInterval - jitterPercent * requestInterval
        /\ 200 * waitInterval <=
              200 * requestInterval + jitterPercent * requestInterval
        /\ waitInterval >= Millisecond
        /\ (requestInterval = 30000 /\ jitterPercent = 10) =>
              (waitInterval >= 28500 /\ waitInterval <= 31500)

(***************************************************************************)
(* Properties of the semaphore, checked under SpecSem.                     *)
(***************************************************************************)
RECURSIVE SumHeld(_)
SumHeld(W) ==
    IF W = {} THEN 0
    ELSE LET w == CHOOSE x \in W : TRUE IN held[w] + SumHeld(W \ {w})

\* C18: the number of held slots stays between 0 and the capacity;
\* Acquire() returns in the step it is called, true having taken a slot
\* when one was free, false having changed nothing otherwise; Release()
\* frees exactly one slot.
C18_SemaphoreBounded ==
    /\ [](/\ sem >= 0 /\ sem <= SemCapacity
          /\ sem = SumHeld(Workers))
    /\ [][\A w \in Workers :
             /\ Acquire(w) =>
                   /\ spc'[w] = "idle"
                   /\ IF sem < SemCapacity
                      THEN /\ semRet'[w] = <<"Acquire", TRUE>>
                           /\ sem' = sem + 1
                           /\ held'[w] = held[w] + 1
                      ELSE /\ semRet'[w] = <<"Acquire", FALSE>>
                           /\ sem' = sem
                           /\ held' = held
             /\ Release(w) =>
                   (sem' = sem - 1 /\ held'[w] = held[w] - 1)]_vars

\* With every slot held, an Acquire() has returned false to a goroutine
\* that holds none.
C18_Witness ==
    /\ sem = SemCapacity
    /\ \E w \in Workers :
         /\ semRet[w] = <<"Acquire", FALSE>>
         /\ held[w] = 0
         /\ spc[w] = "idle"
    /\ \E w \in Workers : semRet[w] = <<"Acquire", TRUE>> /\ held[w] > 0

(***************************************************************************)
(* Further properties of the circuit breaker, checked under SpecCB.        *)
(***************************************************************************)
\* C21: the breaker is always in one of Closed, Open, HalfOpen, and right
\* after every change of its state failureCount, successCount and
\* halfOpenCallCount are all 0.
C21_CountersResetOnTransition ==
    /\ [](cb.state \in {CBStateClosed, CBStateOpen, CBStateHalfOpen})
    /\ [][cb'.state # cb.state =>
             /\ cb'.failureCount = 0
             /\ cb'.successCount = 0
             /\ cb'.halfOpenCallCount = 0]_vars

\* Some caller's RecordSuccess() or RecordFailure() is the step.
SomeRecord == \E c \in Callers : RecordSuccess(c) \/ RecordFailure(c)

\* C22: in HalfOpen every reported outcome increments halfOpenCallCount;
\* the breaker goes HalfOpen->Closed exactly when the successes reported
\* in that HalfOpen stay bring successCount to successThreshold, and then
\* successCount and failureCount are 0 and AllowRequest() returns true; it
\* never goes from Open to Closed.
C22_HalfOpenClosesAtThreshold ==
    /\ [][(cb.state = CBStateHalfOpen /\ SomeRecord) =>
             cb'.halfOpenCallCount = cb.halfOpenCallCount + 1]_vars
    /\ [][(cb.state = CBStateHalfOpen /\ \E c \in Callers : RecordSuccess(c)) =>
             (cb'.state = CBStateClosed <=>
                 staySuccesses' = cb.successThreshold)]_vars
    /\ [][(cb.state = CBStateHalfOpen /\ cb'.state = CBStateClosed) =>
             /\ \E c \in Callers : RecordSuccess(c)
             /\ cb'.successCount = 0
             /\ cb'.failureCount = 0
             /\ AllowRequestRead(cb', now') = "allow"]_vars
    /\ [][cb.state = CBStateOpen => cb'.state # CBStateClosed]_vars

\* C23: a health-check tick of a client that is not shutting down starts
\* reconnect() when the state is Disconnected or Degraded, changes nothing
\* when it is Connecting, and issues one probe when it is Connected; a
\* failed probe sets the state to Disconnected, records the error and
\* starts reconnect(), a successful probe leaves the state unchanged; while
\* the client is shutting down a tick starts neither a probe nor a
\* reconnect() and changes no connection field.
C23_HealthTickDispatch ==
    /\ [][HealthTick =>
             IF isShutting
             THEN UNCHANGED vars
             ELSE /\ connectionState \in {StateDisconnected, StateDegraded} =>
                       pc'["health"] = "rc_enter"
                  /\ connectionState = StateConnecting => UNCHANGED vars
                  /\ connectionState = StateConnected =>
                       pc'["health"] = "probe"
                  /\ UNCHANGED <<connectionState, conn, greeter, conns,
                                 lastError>>]_vars
    /\ [][ProbeReturn =>
             \/ /\ pc'["health"] = "tick"
                /\ UNCHANGED <<connectionState, conn, greeter, conns,
                               lastError>>
             \/ /\ pc'["health"] = "rc_enter"
                /\ connectionState' = StateDisconnected
                /\ lastError' = "probe"]_vars
    /\ [][(isShutting /\ pc["health"] = "tick") =>
             pc'["health"] \in {"tick", "exit"}]_vars

\* A probe of a running client has failed and reconnect() is about to start.
C23_Witness ==
    /\ ~isShutting
    /\ pc["health"] = "rc_enter"
    /\ connectionState = StateDisconnected
    /\ lastError = "probe"

\* C24: a scheduler cycle that the breaker admits skips, with no attempt
\* and no metric, when the connection state is Disconnected or Connecting;
\* starts reconnect() with no attempt when it is Degraded; and hands a
\* request to the retry executor only when it is Connected.
C24_SchedulerDispatch ==
    [][(MakeRequest /\ ~isShutting /\ AllowRequestRead(cb, now) # "deny") =>
          /\ connectionState \in {StateDisconnected, StateConnecting} =>
                /\ pc'["sched"] = "wait"
                /\ UNCHANGED <<metrics, started, attemptsDone, cbReports,
                               clientVars>>
          /\ connectionState = StateDegraded =>
                /\ pc'["sched"] = "rc_enter"
                /\ UNCHANGED <<metrics, started, attemptsDone>>
          /\ pc'["sched"] = "retry" <=> connectionState = StateConnected]_vars

\* The breaker admitted a cycle of a running client, and the cycle ended
\* without any attempt because the connection was down.
C24_Witness ==
    /\ ~isShutting
    /\ pc["sched"] = "wait"
    /\ lastRet = "true"
    /\ started = 0
    /\ metrics.totalRequests = 0
    /\ connectionState \in {StateDisconnected, StateConnecting}

\* The loops that are inside reconnect().
Reconnecting == {p \in Loops : pc[p] \in RcPositions}

\* C25: at most one reconnect() sequence is in progress in every reachable
\* state, and a step that closes or replaces the connection or writes
\* ConnectionState while a loop is inside reconnect() is a step of that
\* loop.
C25_ReconnectSingleFlight ==
    /\ [](Cardinality(Reconnecting) <= 1)
    /\ [][\A p \in Reconnecting :
             (connectionState' # connectionState \/ conn' # conn
                  \/ conns' # conns \/ greeter' # greeter) =>
             pc'[p] # pc[p]]_vars

\* The health checker is in the second or a later dial of its reconnect()
\* while the scheduler of the running client has had a cycle admitted by
\* the breaker and has not started a reconnect() of its own.
C25_Witness ==
    /\ ~isShutting
    /\ pc["health"] = "rc_dial"
    /\ dials["health"] >= 2
    /\ pc["sched"] = "wait"
    /\ lastRet = "true"
    /\ started = 0

\* No caller is between AllowRequest() and its Record call.
NoCallInFlight == \A c \in Callers : cpc[c] = "idle"

\* C26: the breaker is never stuck rejecting: it is never in HalfOpen with
\* halfOpenCallCount >= halfOpenMaxCalls and successCount <
\* successThreshold while no admitted call is left to report, a state in
\* which AllowRequest() returns false for ever after.
C26_NeverStuck ==
    ~ /\ cb.state = CBStateHalfOpen
      /\ cb.halfOpenCallCount >= cb.halfOpenMaxCalls
      /\ cb.successCount < cb.successThreshold
      /\ NoCallInFlight

\* The breaker is Open and its openDuration has not elapsed.
OpenAndWaiting ==
    cb.state = CBStateOpen /\ Since(now, cb.lastStateChange) < cb.openDuration

\* C27: no request attempt is started while the breaker is Open with less
\* than openDuration elapsed, so the retries that remain when a failure has
\* opened the breaker are not made; and no outcome is reported to the
\* breaker while it is Open.
C27_NoAttemptWhileOpen ==
    /\ [][started' > started => ~OpenAndWaiting]_vars
    /\ [][cbReports' > cbReports => cb.state # CBStateOpen]_vars

\* C28: when an invocation of Shutdown() has returned, the first one or
\* any other, the scheduler and the health checker have both exited.
C28_ShutdownReturnsAfterLoopsExit ==
    \A i \in ShutdownCallers :
        shpc[i] \in {"returned", "noop"} => \A p \in Loops : pc[p] = "exit"

\* C29: every attempt the scheduler starts uses a connection that is not
\* closed, also when the health checker's reconnect() has closed the old
\* connection in the middle of the scheduler's retry sequence.
C29_NoAttemptOnClosedConn ==
    [][started' > started => (rpcConn' # 0 /\ conns'[rpcConn'] = 0)]_vars

\* C30: the circuit_breaker_state of every metrics snapshot is the state
\* the circuit breaker is in when the snapshot is taken.
C30_SnapshotShowsBreakerState ==
    [][MetricsGetMetrics =>
          snapshot'[1].circuit_breaker_state = CBStateString(GetState(cb))]_vars

=============================================================================
